---- MODULE Spec2Model ----
(***************************************************************************)
(* State-machine model of serial_motor_demo/src/driver.py: the MotorDriver *)
(* node (send_command and its wrappers, the motor-command callback, the    *)
(* encoder poll) together with the serial channel and the motor controller *)
(* at its far end.                                                         *)
(*                                                                         *)
(* Text is a sequence of one-character strings.  A byte that travels from  *)
(* the controller to the host is a record [ch, of]: ch is the character,   *)
(* of is a history tag naming the command the controller was answering.    *)
(* The code never sees the tag.                                            *)
(***************************************************************************)
EXTENDS Integers, Sequences, FiniteSets, TLC

\* ------------------------------------------------------------------ bounds
\* send_command calls started in one behaviour
MaxCalls == 2
\* time.time() returns a value in 0..MaxTime
MaxTime == 2
\* time.time() at construction
StartTime == 1

\* --------------------------------------------------------------- alphabet
CR == "\r"
\* a byte that is not valid UTF-8 on its own (0x80..0xFF)
BadByte == "\\xff"
Whitespace == {" ", "\t", "\n", CR}
DigitChars == <<"0", "1", "2", "3", "4", "5", "6", "7", "8", "9">>
Digits == {DigitChars[i] : i \in 1..10}

Threads == {"poll", "cb"}

\* the values of the ~encoder_cpr parameter considered (0 is the default)
CprValues == {0, 8}
\* the inbound MotorCommand messages considered; the two requested values
\* are given in halves (3 is 1.5)
MotorCommands ==
  { [is_pwm |-> TRUE, mot_1 |-> 3, mot_2 |-> -5],
    [is_pwm |-> FALSE, mot_1 |-> 3, mot_2 |-> -5] }

\* lines the controller may answer an 'e' with (the terminator is appended
\* by the controller)
EncLines ==
  { <<"1", " ", "2">>, <<"7">>, <<"1", " ", "2", " ", "3">>, <<"1", " ", "a">>,
    <<>>, <<BadByte>> }
\* lines the controller may answer an 'o' or 'm' with
AckLines == { <<"K">> }

\* ------------------------------------------------------------- pure text
DigitVal(c) == (CHOOSE i \in 1..10 : DigitChars[i] = c) - 1

RECURSIVE NatToStr(_)
NatToStr(n) ==
  IF n < 10 THEN <<DigitChars[n + 1]>>
  ELSE Append(NatToStr(n \div 10), DigitChars[(n % 10) + 1])

\* IntToStr with the sign lost
IntToStrNoSign(n) == IF n < 0 THEN NatToStr(-n) ELSE NatToStr(n)

\* str(n) of a Python int, as an f-string renders it
IntToStr(n) == IF n < 0 THEN <<"-">> \o NatToStr(-n) ELSE NatToStr(n)

\* the characters of a sequence of tagged bytes
Chars(bs) == [i \in 1..Len(bs) |-> bs[i].ch]

\* str.strip('\r') on tagged bytes: drops every leading and trailing CR
RECURSIVE LStrip(_)
LStrip(bs) == IF bs # <<>> /\ Head(bs).ch = CR THEN LStrip(Tail(bs)) ELSE bs
RECURSIVE RStrip(_)
RStrip(bs) ==
  IF bs # <<>> /\ bs[Len(bs)].ch = CR THEN RStrip(SubSeq(bs, 1, Len(bs) - 1)) ELSE bs
\* Strip with the strip left out
NoStrip(bs) == bs
Strip(bs) == RStrip(LStrip(bs))

\* str.split(): maximal runs of non-whitespace characters, in order
SplitScan(s) ==
  LET F[i \in 0..Len(s)] ==
        IF i = 0 THEN <<<<>>, <<>>>>
        ELSE LET p == F[i - 1]
             IN IF s[i] \in Whitespace
                THEN IF p[2] = <<>> THEN p ELSE <<Append(p[1], p[2]), <<>>>>
                ELSE <<p[1], Append(p[2], s[i])>>
  IN F[Len(s)]
Split(s) ==
  LET p == SplitScan(s) IN IF p[2] = <<>> THEN p[1] ELSE Append(p[1], p[2])

\* int(token) succeeds: optional sign, then one or more decimal digits
IsIntLiteral(tok) ==
  LET body == IF tok # <<>> /\ Head(tok) \in {"-", "+"} THEN Tail(tok) ELSE tok
  IN body # <<>> /\ \A i \in 1..Len(body) : body[i] \in Digits

RECURSIVE DigitsToNat(_)
DigitsToNat(ds) ==
  IF ds = <<>> THEN 0
  ELSE 10 * DigitsToNat(SubSeq(ds, 1, Len(ds) - 1)) + DigitVal(ds[Len(ds)])

\* int(token) for a token int() accepts
ParseInt(tok) ==
  IF Head(tok) = "-" THEN -DigitsToNat(Tail(tok))
  ELSE IF Head(tok) = "+" THEN DigitsToNat(Tail(tok))
  ELSE DigitsToNat(tok)

\* ------------------------------------------------------------ arithmetic
\* int(x) of a float x given in halves: truncation toward zero
IntOfHalves(h) == IF h >= 0 THEN h \div 2 ELSE -((-h) \div 2)

\* 355/113 stands for pi: for 0 <= x < 10^5 no multiple of 4*pi lies between
\* x*113/1420 and x/(4*pi), so the integer part below is the exact one
PiNum == 355
PiDen == 113

\* CountsPerLoop rounding to the nearest integer instead of int()
CountsRound(h, cpr) ==
  LET x == (IF h >= 0 THEN h ELSE -h) * cpr
      q == (2 * x * PiDen + 4 * PiNum) \div (8 * PiNum)
  IN IF h >= 0 THEN q ELSE -q

\* int(req * (encoder_cpr / (2*pi))) for req given in halves
CountsPerLoop(h, cpr) ==
  LET x == (IF h >= 0 THEN h ELSE -h) * cpr
      q == (x * PiDen) \div (4 * PiNum)
  IN IF h >= 0 THEN q ELSE -q

\* ----------------------------------------------------------------- frames
PwmFrame(h1, h2) ==
  <<"o", " ">> \o IntToStr(IntOfHalves(h1)) \o <<" ">> \o IntToStr(IntOfHalves(h2))
FeedbackFrame(c1, c2) ==
  <<"m", " ">> \o IntToStr(c1) \o <<" ">> \o IntToStr(c2)
EncoderFrame == <<"e">>

\* cmd_string of the command a MotorCommand message leads to
CallbackFrame(is_pwm, h1, h2, cpr) ==
  IF is_pwm THEN PwmFrame(h1, h2)
  ELSE FeedbackFrame(CountsPerLoop(h1, cpr), CountsPerLoop(h2, cpr))

\* ------------------------------------------------------------------ state
VARIABLES
  encoder_cpr,         \* self.encoder_cpr
  shutdown,            \* rospy.is_shutdown()
  locked,              \* self.mutex is held
  conn_open,           \* self.conn is open
  closes,              \* number of conn.close() calls made
  pc,                  \* position of each thread
  cmd_string,          \* send_command's cmd_string, per thread
  c,                   \* send_command's c, per thread ("" is the empty str)
  value,               \* send_command's value, per thread (tagged bytes)
  ret,                 \* outcome of the thread's send_command
  myId,                \* history: number of the thread's send_command call
  written,             \* history: frames the call has written
  consumed,            \* history: tagged bytes the call has taken from rx
  lastRead,            \* history: how the call's latest conn.read(1) ended
  motor_command,       \* the message motor_command_callback is handling
  wire,                \* frames written that the controller has not taken yet
  devOut,              \* bytes of the answer the controller is sending
  rx,                  \* bytes delivered to the host and not read yet
  ncalls,              \* send_command calls started
  last_enc_read_time, last_m1_enc, last_m2_enc, m1_spd, m2_spd,
  pub,                 \* records published by the current check_encoders
  pollExc              \* the exception that ended the main thread, if any

chanVars == <<wire, devOut, rx>>
encVars == <<last_enc_read_time, last_m1_enc, last_m2_enc, m1_spd, m2_spd>>
callVars == <<cmd_string, c, value, ret, myId, written, consumed, lastRead,
              motor_command>>
vars == <<encoder_cpr, shutdown, locked, conn_open, closes, pc, callVars,
          chanVars, ncalls, encVars, pub, pollExc>>

NoRet == [kind |-> "none", val |-> <<>>, exc |-> "none"]
Returned(v) == [kind |-> "value", val |-> v, exc |-> "none"]
Raised(e) == [kind |-> "raise", val |-> <<>>, exc |-> e]
NoExc == [type |-> "none", line |-> 0]
\* no message is being handled
NoMsg == [is_pwm |-> FALSE, mot_1 |-> 0, mot_2 |-> 0]

\* a velocity num/den * 2*pi rad/s
Rat(n, d) == <<n, d>>

\* positions inside send_command after the lock was acquired
InExchange == {"write", "read", "finally"}

Init ==
  /\ encoder_cpr \in CprValues
  /\ shutdown = FALSE
  /\ locked = FALSE
  /\ conn_open = TRUE
  /\ closes = 0
  /\ pc = [t \in Threads |-> IF t = "poll" THEN "loop" ELSE "idle"]
  /\ cmd_string = [t \in Threads |-> <<>>]
  /\ c = [t \in Threads |-> ""]
  /\ value = [t \in Threads |-> <<>>]
  /\ ret = [t \in Threads |-> NoRet]
  /\ myId = [t \in Threads |-> 0]
  /\ written = [t \in Threads |-> 0]
  /\ consumed = [t \in Threads |-> <<>>]
  /\ lastRead = [t \in Threads |-> "none"]
  /\ motor_command = NoMsg
  /\ wire = <<>>
  /\ devOut = <<>>
  /\ rx = <<>>
  /\ ncalls = 0
  /\ last_enc_read_time = StartTime
  /\ last_m1_enc = 0
  /\ last_m2_enc = 0
  /\ m1_spd = Rat(0, 1)
  /\ m2_spd = Rat(0, 1)
  /\ pub = <<>>
  /\ pollExc = NoExc

\* --------------------------------------------------------- send_command
Upd(f, t, v) == [f EXCEPT ![t] = v]

\* Acquire with the wait for a free lock left out
AcquireNoWait(t) ==
  /\ pc[t] = "acquire"
  /\ locked' = TRUE
  /\ pc' = Upd(pc, t, "write")
  /\ UNCHANGED <<encoder_cpr, shutdown, conn_open, closes, callVars, chanVars,
                 ncalls, encVars, pub, pollExc>>

\* a caller enters send_command and waits at self.mutex.acquire()
\* (line 113): it proceeds only when the lock is free
Acquire(t) ==
  /\ pc[t] = "acquire"
  /\ ~locked
  /\ locked' = TRUE
  /\ pc' = Upd(pc, t, "write")
  /\ UNCHANGED <<encoder_cpr, shutdown, conn_open, closes, callVars, chanVars,
                 ncalls, encVars, pub, pollExc>>

\* lines 115-122: the terminator is appended and the whole frame is written
Write(t) ==
  /\ pc[t] = "write"
  /\ conn_open
  /\ cmd_string' = Upd(cmd_string, t, Append(cmd_string[t], CR))
  /\ wire' = Append(wire, [id |-> myId[t], frame |-> cmd_string'[t]])
  /\ written' = Upd(written, t, written[t] + 1)
  /\ c' = Upd(c, t, "")
  /\ value' = Upd(value, t, <<>>)
  /\ pc' = Upd(pc, t, "read")
  /\ UNCHANGED motor_command
  /\ UNCHANGED <<encoder_cpr, shutdown, locked, conn_open, closes, ret, myId,
                 consumed, lastRead, devOut, rx, ncalls, encVars, pub, pollExc>>

\* line 116 raises: the port is closed, or the write fails
WriteFails(t) ==
  /\ pc[t] = "write"
  /\ cmd_string' = Upd(cmd_string, t, Append(cmd_string[t], CR))
  /\ ret' = Upd(ret, t, Raised("SerialException"))
  /\ pc' = Upd(pc, t, "finally")
  /\ UNCHANGED motor_command
  /\ UNCHANGED <<encoder_cpr, shutdown, locked, conn_open, closes, c, value,
                 myId, written, consumed, lastRead, chanVars, ncalls, encVars,
                 pub, pollExc>>

\* ReadByte with a cap on the length of a response line: the call returns
\* what it has once two bytes are accumulated
ReadByteCapped(t) ==
  /\ pc[t] = "read"
  /\ conn_open
  /\ rx # <<>>
  /\ rx' = Tail(rx)
  /\ consumed' = Upd(consumed, t, Append(consumed[t], Head(rx)))
  /\ lastRead' = Upd(lastRead, t, "byte")
  /\ LET b == Head(rx) IN
       IF b.ch = BadByte
       THEN /\ ret' = Upd(ret, t, Raised("UnicodeDecodeError"))
            /\ pc' = Upd(pc, t, "finally")
            /\ UNCHANGED <<c, value>>
       ELSE /\ c' = Upd(c, t, b.ch)
            /\ IF b.ch = CR \/ Len(value[t]) >= 1
               THEN /\ value' = Upd(value, t, Strip(Append(value[t], b)))
                    /\ ret' = Upd(ret, t, Returned(value'[t]))
                    /\ pc' = Upd(pc, t, "finally")
               ELSE /\ value' = Upd(value, t, Append(value[t], b))
                    /\ UNCHANGED <<ret, pc>>
  /\ UNCHANGED <<encoder_cpr, shutdown, locked, conn_open, closes, cmd_string,
                 motor_command,
                 myId, written, wire, devOut, ncalls, encVars, pub, pollExc>>

\* one turn of the loop of lines 123-128 in which read(1) yields a byte;
\* on the terminator the loop ends and lines 130-134 run
ReadByte(t) ==
  /\ pc[t] = "read"
  /\ conn_open
  /\ rx # <<>>
  /\ rx' = Tail(rx)
  /\ consumed' = Upd(consumed, t, Append(consumed[t], Head(rx)))
  /\ lastRead' = Upd(lastRead, t, "byte")
  /\ LET b == Head(rx) IN
       IF b.ch = BadByte
       THEN /\ ret' = Upd(ret, t, Raised("UnicodeDecodeError"))
            /\ pc' = Upd(pc, t, "finally")
            /\ UNCHANGED <<c, value>>
       ELSE /\ c' = Upd(c, t, b.ch)
            /\ IF b.ch = CR
               THEN /\ value' = Upd(value, t, Strip(Append(value[t], b)))
                    /\ ret' = Upd(ret, t, Returned(value'[t]))
                    /\ pc' = Upd(pc, t, "finally")
               ELSE /\ value' = Upd(value, t, Append(value[t], b))
                    /\ UNCHANGED <<ret, pc>>
  /\ UNCHANGED <<encoder_cpr, shutdown, locked, conn_open, closes, cmd_string,
                 motor_command,
                 myId, written, wire, devOut, ncalls, encVars, pub, pollExc>>

\* ReadTimeout returning what was accumulated instead of the empty string
ReadTimeoutPartial(t) ==
  /\ pc[t] = "read"
  /\ conn_open
  /\ rx = <<>>
  /\ c' = Upd(c, t, "")
  /\ ret' = Upd(ret, t, Returned(value[t]))
  /\ lastRead' = Upd(lastRead, t, "timeout")
  /\ pc' = Upd(pc, t, "finally")
  /\ UNCHANGED <<encoder_cpr, shutdown, locked, conn_open, closes, cmd_string,
                 motor_command,
                 value, myId, written, consumed, chanVars, ncalls, encVars,
                 pub, pollExc>>

\* read(1) returns no byte within the timeout: lines 125-127
ReadTimeout(t) ==
  /\ pc[t] = "read"
  /\ conn_open
  /\ rx = <<>>
  /\ c' = Upd(c, t, "")
  /\ ret' = Upd(ret, t, Returned(<<>>))
  /\ lastRead' = Upd(lastRead, t, "timeout")
  /\ pc' = Upd(pc, t, "finally")
  /\ UNCHANGED <<encoder_cpr, shutdown, locked, conn_open, closes, cmd_string,
                 motor_command,
                 value, myId, written, consumed, chanVars, ncalls, encVars,
                 pub, pollExc>>

\* line 124 raises: the port is closed, or the read fails
ReadFails(t) ==
  /\ pc[t] = "read"
  /\ ret' = Upd(ret, t, Raised("SerialException"))
  /\ lastRead' = Upd(lastRead, t, "error")
  /\ pc' = Upd(pc, t, "finally")
  /\ UNCHANGED <<encoder_cpr, shutdown, locked, conn_open, closes, cmd_string,
                 motor_command,
                 c, value, myId, written, consumed, chanVars, ncalls, encVars,
                 pub, pollExc>>

\* Finally with the release placed after the loop instead of in a finally
\* clause: the early return and the exceptions skip it
FinallyNormalExitOnly(t) ==
  /\ pc[t] = "finally"
  /\ locked' = (ret[t].kind # "value" \/ lastRead[t] = "timeout")
  /\ pc' = Upd(pc, t, IF t = "poll" THEN "resp" ELSE "idle")
  /\ cmd_string' = Upd(cmd_string, t, <<>>)
  /\ c' = Upd(c, t, "")
  /\ value' = Upd(value, t, <<>>)
  /\ ret' = IF t = "poll" THEN ret ELSE Upd(ret, t, NoRet)
  /\ myId' = Upd(myId, t, 0)
  /\ written' = Upd(written, t, 0)
  /\ consumed' = Upd(consumed, t, <<>>)
  /\ lastRead' = Upd(lastRead, t, "none")
  /\ motor_command' = IF t = "cb" THEN NoMsg ELSE motor_command
  /\ UNCHANGED <<encoder_cpr, shutdown, conn_open, closes, chanVars, ncalls,
                 encVars, pub, pollExc>>

\* lines 135-136: the finally clause, on the way out of every path.  The
\* locals of send_command end here.  The callback drops the result and its
\* thread waits for the next message; the main thread is back in
\* send_encoder_read_command with the result
Finally(t) ==
  /\ pc[t] = "finally"
  /\ locked' = FALSE
  /\ pc' = Upd(pc, t, IF t = "poll" THEN "resp" ELSE "idle")
  /\ cmd_string' = Upd(cmd_string, t, <<>>)
  /\ c' = Upd(c, t, "")
  /\ value' = Upd(value, t, <<>>)
  /\ ret' = IF t = "poll" THEN ret ELSE Upd(ret, t, NoRet)
  /\ myId' = Upd(myId, t, 0)
  /\ written' = Upd(written, t, 0)
  /\ consumed' = Upd(consumed, t, <<>>)
  /\ lastRead' = Upd(lastRead, t, "none")
  /\ motor_command' = IF t = "cb" THEN NoMsg ELSE motor_command
  /\ UNCHANGED <<encoder_cpr, shutdown, conn_open, closes, chanVars, ncalls,
                 encVars, pub, pollExc>>

\* ------------------------------------------------------------- controller
Tagged(line, id) == [i \in 1..Len(line) |-> [ch |-> line[i], of |-> id]]

\* the controller takes the oldest frame on the wire and starts to answer it
ControllerAnswer ==
  /\ wire # <<>>
  /\ devOut = <<>>
  /\ LET cmd == Head(wire)
         lines == IF Head(cmd.frame) = "e" THEN EncLines ELSE AckLines
     IN \E line \in lines : devOut' = Tagged(Append(line, CR), cmd.id)
  /\ wire' = Tail(wire)
  /\ UNCHANGED <<encoder_cpr, shutdown, locked, conn_open, closes, pc,
                 callVars, rx, ncalls, encVars, pub, pollExc>>

\* the next byte of the answer reaches the host's input buffer
ControllerSend ==
  /\ devOut # <<>>
  /\ conn_open
  /\ rx' = Append(rx, Head(devOut))
  /\ devOut' = Tail(devOut)
  /\ UNCHANGED <<encoder_cpr, shutdown, locked, conn_open, closes, pc,
                 callVars, wire, ncalls, encVars, pub, pollExc>>

\* ----------------------------------------------------------------- callers
\* MotorCommandCallback storing the requested speeds in m1_spd and m2_spd
MotorCommandCallbackStoresSpeed(msg) ==
  /\ pc["cb"] = "idle"
  /\ ncalls < MaxCalls
  /\ ncalls' = ncalls + 1
  /\ myId' = Upd(myId, "cb", ncalls')
  /\ motor_command' = msg
  /\ cmd_string' = Upd(cmd_string, "cb",
                       CallbackFrame(msg.is_pwm, msg.mot_1, msg.mot_2,
                                     encoder_cpr))
  /\ pc' = Upd(pc, "cb", "acquire")
  /\ m1_spd' = Rat(msg.mot_1, 2)
  /\ m2_spd' = Rat(msg.mot_2, 2)
  /\ UNCHANGED <<encoder_cpr, shutdown, locked, conn_open, closes, c, value,
                 ret, written, consumed, lastRead, chanVars,
                 last_enc_read_time, last_m1_enc, last_m2_enc, pub, pollExc>>

\* a MotorCommand message arrives and motor_command_callback (lines 68-78)
\* builds its frame and calls send_command
MotorCommandCallback(msg) ==
  /\ pc["cb"] = "idle"
  /\ ncalls < MaxCalls
  /\ ncalls' = ncalls + 1
  /\ myId' = Upd(myId, "cb", ncalls')
  /\ motor_command' = msg
  /\ cmd_string' = Upd(cmd_string, "cb",
                       CallbackFrame(msg.is_pwm, msg.mot_1, msg.mot_2,
                                     encoder_cpr))
  /\ pc' = Upd(pc, "cb", "acquire")
  /\ UNCHANGED <<encoder_cpr, shutdown, locked, conn_open, closes, c, value,
                 ret, written, consumed, lastRead, chanVars, encVars, pub,
                 pollExc>>

\* lines 155-156 and 80-81, 59-60: the loop test finds no shutdown and
\* check_encoders calls send_encoder_read_command, which calls send_command
PollEncoders ==
  /\ pc["poll"] = "loop"
  /\ ~shutdown
  /\ ncalls < MaxCalls
  /\ ncalls' = ncalls + 1
  /\ myId' = Upd(myId, "poll", ncalls')
  /\ cmd_string' = Upd(cmd_string, "poll", EncoderFrame)
  /\ pub' = <<>>
  /\ pc' = Upd(pc, "poll", "acquire")
  /\ UNCHANGED motor_command
  /\ UNCHANGED <<encoder_cpr, shutdown, locked, conn_open, closes, c, value,
                 ret, written, consumed, lastRead, chanVars, encVars, pollExc>>

\* lines 61-63 on the text send_command returned
SendEncoderReadCommand(text) ==
  LET toks == Split(text) IN
    IF text = <<>> THEN [exc |-> NoExc, list |-> <<>>]
    ELSE IF \E i \in 1..Len(toks) : ~IsIntLiteral(toks[i])
         THEN [exc |-> [type |-> "ValueError", line |-> 62], list |-> <<>>]
         ELSE [exc |-> NoExc, list |-> [i \in 1..Len(toks) |-> ParseInt(toks[i])]]

\* lines 84-105 on a non-empty list resp, with time.time() = new_time: the
\* stored state, the records published and the exception raised, if any
EncoderUpdate(resp, new_time) ==
  LET time_diff == new_time - last_enc_read_time
      m1_diff == resp[1] - last_m1_enc
      m2_diff == resp[2] - last_m2_enc
      s1 == Rat(m1_diff, encoder_cpr * time_diff)
      s2 == Rat(m2_diff, encoder_cpr * time_diff)
      at88 == [time |-> new_time, m1 |-> resp[1], m2 |-> last_m2_enc,
               s1 |-> m1_spd, s2 |-> m2_spd, out |-> <<>>, exc |-> NoExc]
  IN IF Len(resp) < 2
     THEN [at88 EXCEPT !.exc = [type |-> "IndexError", line |-> 90]]
     ELSE IF encoder_cpr = 0
     THEN [at88 EXCEPT !.m2 = resp[2],
                       !.exc = [type |-> "ZeroDivisionError", line |-> 93]]
     ELSE IF time_diff = 0
     THEN [at88 EXCEPT !.m2 = resp[2],
                       !.exc = [type |-> "ZeroDivisionError", line |-> 94]]
     ELSE [at88 EXCEPT !.m2 = resp[2], !.s1 = s1, !.s2 = s2,
                       !.out = << [kind |-> "vel", a |-> s1, b |-> s2],
                                  [kind |-> "enc", a |-> resp[1], b |-> resp[2]] >>]

\* the rest of check_encoders once send_command has returned to
\* send_encoder_read_command, then idle.sleep() (line 160); an exception
\* leaves the main loop, which has no handler
CheckEncoders ==
  /\ pc["poll"] = "resp"
  /\ LET r == ret["poll"]
         parsed == SendEncoderReadCommand(Chars(r.val))
     IN IF r.kind = "raise"
        THEN /\ pollExc' = [type |-> r.exc, line |-> 60]
             /\ pc' = Upd(pc, "poll", "crashed")
             /\ UNCHANGED <<encVars, pub>>
        ELSE IF parsed.exc # NoExc
        THEN /\ pollExc' = parsed.exc
             /\ pc' = Upd(pc, "poll", "crashed")
             /\ UNCHANGED <<encVars, pub>>
        ELSE IF parsed.list = <<>>
        THEN /\ pc' = Upd(pc, "poll", "loop")
             /\ UNCHANGED <<encVars, pub, pollExc>>
        ELSE \E new_time \in 0..MaxTime :
               LET o == EncoderUpdate(parsed.list, new_time) IN
                 /\ last_enc_read_time' = o.time
                 /\ last_m1_enc' = o.m1
                 /\ last_m2_enc' = o.m2
                 /\ m1_spd' = o.s1
                 /\ m2_spd' = o.s2
                 /\ pub' = pub \o o.out
                 /\ pollExc' = o.exc
                 /\ pc' = Upd(pc, "poll", IF o.exc = NoExc THEN "loop" ELSE "crashed")
  /\ ret' = Upd(ret, "poll", NoRet)
  /\ UNCHANGED <<encoder_cpr, shutdown, locked, conn_open, closes, cmd_string,
                 motor_command,
                 c, value, myId, written, consumed, lastRead, chanVars, ncalls>>

\* ---------------------------------------------------------------- shutdown
\* a shutdown request: rospy.is_shutdown() is true from now on
SignalShutdown ==
  /\ ~shutdown
  /\ shutdown' = TRUE
  /\ UNCHANGED <<encoder_cpr, locked, conn_open, closes, pc, callVars,
                 chanVars, ncalls, encVars, pub, pollExc>>

\* line 155: the loop test finds the shutdown and the loop ends
PollExit ==
  /\ pc["poll"] = "loop"
  /\ shutdown
  /\ pc' = Upd(pc, "poll", "close")
  /\ UNCHANGED <<encoder_cpr, shutdown, locked, conn_open, closes, callVars,
                 chanVars, ncalls, encVars, pub, pollExc>>

\* lines 162 and 138-139: motor_driver.close_conn()
CloseConn ==
  /\ pc["poll"] = "close"
  /\ conn_open' = FALSE
  /\ closes' = closes + 1
  /\ pc' = Upd(pc, "poll", "destroy")
  /\ UNCHANGED <<encoder_cpr, shutdown, locked, callVars, chanVars, ncalls,
                 encVars, pub, pollExc>>

\* line 163: MotorDriver has no destroy_node
DestroyNode ==
  /\ pc["poll"] = "destroy"
  /\ pollExc' = [type |-> "AttributeError", line |-> 163]
  /\ pc' = Upd(pc, "poll", "crashed")
  /\ UNCHANGED <<encoder_cpr, shutdown, locked, conn_open, closes, callVars,
                 chanVars, ncalls, encVars, pub>>

Next ==
  \/ \E t \in Threads : Acquire(t)
  \/ \E t \in Threads : Write(t)
  \/ \E t \in Threads : WriteFails(t)
  \/ \E t \in Threads : ReadByte(t)
  \/ \E t \in Threads : ReadTimeout(t)
  \/ \E t \in Threads : ReadFails(t)
  \/ \E t \in Threads : Finally(t)
  \/ ControllerAnswer
  \/ ControllerSend
  \/ \E msg \in MotorCommands : MotorCommandCallback(msg)
  \/ PollEncoders
  \/ CheckEncoders
  \/ SignalShutdown
  \/ PollExit
  \/ CloseConn
  \/ DestroyNode

Spec == Init /\ [][Next]_vars

\* a thread inside send_command with the lock takes its next step: write and
\* read(1) return or raise (read(1) within its one-second timeout), and the
\* finally clause runs
Progress(t) ==
  \/ Write(t) \/ WriteFails(t)
  \/ ReadByte(t) \/ ReadTimeout(t) \/ ReadFails(t)
  \/ Finally(t)

\* fair scheduling: a thread that can step does, and a thread waiting at
\* acquire() gets the lock if it is free again and again
FairSpec ==
  /\ Spec
  /\ \A t \in Threads : WF_vars(Progress(t)) /\ SF_vars(Acquire(t))

\* ------------------------------------------------------------- properties
InFlight == {t \in Threads : pc[t] \in InExchange}
Last(q) == q[Len(q)]

\* C1: at most one send_command exchange is in flight at any instant: from
\* the acquisition before one command's write to the end of its read, no
\* other thread is at the write or in the read loop.
C1_OneExchangeInFlight == Cardinality(InFlight) <= 1

\* one exchange is awaiting its answer while the other caller waits
C1_Witness == pc["cb"] = "read" /\ pc["poll"] = "acquire"

\* C2: the response a send_command call returns consists of bytes the
\* controller sent in answer to the frame this very call wrote.
C2_ResponseIsOwnReply ==
  \A t \in Threads :
    (pc[t] = "finally" /\ ret[t].kind = "value") =>
      \A i \in 1..Len(ret[t].val) : ret[t].val[i].of = myId[t]

\* C3: the lock is held only while some thread is inside send_command
\* between its acquire and the end of its finally clause, whichever way the
\* call ends.
C3_LockHeldOnlyInside == locked => InFlight # {}

\* a call has ended by an I/O error and the lock is free
C3_Witness ==
  /\ pc["poll"] = "crashed"
  /\ pollExc.type = "SerialException"
  /\ ~locked
  /\ InFlight = {}

\* C4: a call whose read timed out returns the empty string, not an
\* exception, whatever it had accumulated, and has written its frame once.
C4_TimeoutDropsCommand ==
  \A t \in Threads :
    lastRead[t] = "timeout" =>
      /\ pc[t] = "finally"
      /\ ret[t] = Returned(<<>>)
      /\ written[t] = 1

\* a read timed out after some bytes of a line had been accumulated
C4_Witness ==
  \E t \in Threads : lastRead[t] = "timeout" /\ Len(consumed[t]) >= 2

\* C5: a call that read a carriage return returns the bytes it took from
\* the channel, in order, without that carriage return; the carriage return
\* is the last byte it took and the only one.
C5_ReturnsLineBeforeTerminator ==
  \A t \in Threads :
    c[t] = CR =>
      LET n == Len(consumed[t]) IN
        /\ pc[t] = "finally"
        /\ ret[t].kind = "value"
        /\ n >= 1
        /\ Last(consumed[t]).ch = CR
        /\ ret[t].val = SubSeq(consumed[t], 1, n - 1)
        /\ \A i \in 1..Len(ret[t].val) : ret[t].val[i].ch # CR

\* a call returns a line of several characters
C5_Witness ==
  \E t \in Threads : c[t] = CR /\ Len(ret[t].val) >= 3

\* the line consists of exactly two integer tokens separated by whitespace
TwoIntegerTokens(text) ==
  LET toks == Split(text)
  IN Len(toks) = 2 /\ IsIntLiteral(toks[1]) /\ IsIntLiteral(toks[2])

\* the poll has its answer, and it is a timeout, an error or a malformed line
NoUsableResponse ==
  /\ pc["poll"] = "resp"
  /\ ret["poll"].kind = "value" => ~TwoIntegerTokens(Chars(ret["poll"].val))

\* C6: a poll that gets no usable encoder response leaves the stored
\* encoder state as it was and publishes no record.
C6_FailedPollChangesNothing ==
  [][NoUsableResponse => (UNCHANGED encVars /\ pub' = <<>>)]_vars

\* C7: no read timeout, I/O error or malformed encoder response ends the
\* main loop.
C7_FailuresNeverEndMainLoop ==
  pollExc.type \notin {"SerialException", "UnicodeDecodeError", "ValueError",
                       "IndexError"}

\* C8: send_encoder_read_command yields the pair of integers of a line of
\* exactly two integer tokens, and for every other line yields the empty
\* 'no reading' list without raising.
C8_PairOnlyFromTwoIntegerTokens ==
  (pc["poll"] = "resp" /\ ret["poll"].kind = "value") =>
    LET text == Chars(ret["poll"].val)
        toks == Split(text)
        got == SendEncoderReadCommand(text)
    IN IF TwoIntegerTokens(text)
       THEN got = [exc |-> NoExc,
                   list |-> <<ParseInt(toks[1]), ParseInt(toks[2])>>]
       ELSE got = [exc |-> NoExc, list |-> <<>>]

\* C9: the channel is closed once, and never between the write of a
\* command's frame and the end of that command's read.
C9_CloseOnceOutsideExchange ==
  [][(conn_open /\ ~conn_open') =>
       (closes' = 1 /\ \A t \in Threads : written[t] = 0)]_vars

\* C10: no velocity is computed with a zero or negative elapsed time: none
\* is stored, none is published, and no division by a zero elapsed time is
\* attempted.
C10_NoNonPositiveDeltaTime ==
  /\ pollExc # [type |-> "ZeroDivisionError", line |-> 94]
  /\ m1_spd[2] > 0
  /\ m2_spd[2] > 0
  /\ \A i \in 1..Len(pub) :
       pub[i].kind = "vel" => (pub[i].a[2] > 0 /\ pub[i].b[2] > 0)

\* ------------------------------------------------------ frames on the wire
\* the frame without its last byte
FrameBody(f) == SubSeq(f, 1, Len(f) - 1)

\* n is the integer part of h/2
IsIntegerPartOfHalves(n, h) ==
  IF h >= 0 THEN 2 * n <= h /\ h < 2 * n + 2
  ELSE 2 * n >= h /\ h > 2 * n - 2

\* the frame thread t wrote is one line ending in the only carriage return;
\* the poll's is 'e', the callback's is 'o <left> <right>' or
\* 'm <left> <right>' by is_pwm, the PWM integers being the integer parts of
\* the requested values
FrameWellFormed(t) ==
  LET f == cmd_string[t]
      body == FrameBody(f)
      toks == Split(body)
  IN /\ Len(f) >= 2
     /\ Last(f) = CR
     /\ \A i \in 1..Len(body) : body[i] # CR
     /\ \A i \in 1..Len(wire) : wire[i].id = myId[t] => wire[i].frame = f
     /\ t = "poll" => body = <<"e">>
     /\ t = "cb" =>
          /\ Len(toks) = 3
          /\ body = toks[1] \o <<" ">> \o toks[2] \o <<" ">> \o toks[3]
          /\ toks[1] = IF motor_command.is_pwm THEN <<"o">> ELSE <<"m">>
          /\ IsIntLiteral(toks[2])
          /\ IsIntLiteral(toks[3])
          /\ motor_command.is_pwm =>
               /\ IsIntegerPartOfHalves(ParseInt(toks[2]), motor_command.mot_1)
               /\ IsIntegerPartOfHalves(ParseInt(toks[3]), motor_command.mot_2)

\* the call of thread t ended because conn.write raised
WriteRaised(t) ==
  pc[t] = "finally" /\ ret[t].kind = "raise" /\ lastRead[t] = "none"

\* C11 as stated: every send_command call, once past line 116, has written
\* exactly one well-formed frame.
C11_EveryCallWritesOneFrame ==
  \A t \in Threads :
    IF pc[t] \in {"read", "finally"}
    THEN written[t] = 1 /\ FrameWellFormed(t)
    ELSE written[t] = 0

\* C11 as amended: every send_command call whose conn.write did not raise
\* has, once past line 116, written exactly one well-formed frame; a call
\* whose conn.write raised has written none.
C11_CallWritesOneFrameUnlessWriteRaises ==
  \A t \in Threads :
    IF pc[t] \in {"read", "finally"} /\ ~WriteRaised(t)
    THEN written[t] = 1 /\ FrameWellFormed(t)
    ELSE written[t] = 0

\* the callback has written the PWM frame of the message (1.5, -2.5)
C11_Witness ==
  /\ pc["cb"] = "read"
  /\ motor_command = [is_pwm |-> TRUE, mot_1 |-> 3, mot_2 |-> -5]
  /\ cmd_string["cb"] = <<"o", " ", "1", " ", "-", "2", CR>>
  /\ written["cb"] = 1

\* ------------------------------------------------------------ encoder poll
\* the main thread takes its step out of send_encoder_read_command
PollTakesResponse == pc["poll"] = "resp" /\ pc'["poll"] # "resp"

\* C12: a poll whose response is a pair (left, right) stores exactly
\* (left, right) and a new timestamp, and publishes one velocity record, made
\* of the signed differences to the counts stored before over the elapsed
\* time, and then one raw counter record carrying (left, right).
C12_SuccessfulPollUpdatesAndPublishes ==
  [][(/\ PollTakesResponse
      /\ ret["poll"].kind = "value"
      /\ TwoIntegerTokens(Chars(ret["poll"].val))) =>
       LET toks == Split(Chars(ret["poll"].val))
           left == ParseInt(toks[1])
           right == ParseInt(toks[2])
           den == encoder_cpr * (last_enc_read_time' - last_enc_read_time)
           vel == [kind |-> "vel", a |-> Rat(left - last_m1_enc, den),
                   b |-> Rat(right - last_m2_enc, den)]
           enc == [kind |-> "enc", a |-> left, b |-> right]
       IN /\ last_m1_enc' = left
          /\ last_m2_enc' = right
          /\ last_enc_read_time' \in 0..MaxTime
          /\ m1_spd' = vel.a
          /\ m2_spd' = vel.b
          /\ pub' = <<vel, enc>>]_vars

\* ------------------------------------------------------------------ waiting
\* C13: a caller that finds the lock held stays at acquire() and writes
\* nothing while it is held; under fair scheduling every caller at
\* acquire() gets through and completes its own exchange.
C13_BlockedCallerWaitsThenProceeds ==
  /\ [][\A t \in Threads :
          (pc[t] = "acquire" /\ locked) =>
            (pc'[t] = "acquire" /\ written'[t] = 0)]_vars
  /\ \A t \in Threads : (pc[t] = "acquire") ~> (pc[t] = "finally")

\* the callback waits at acquire() while the poll is reading its answer
C13_Witness ==
  /\ pc["cb"] = "acquire"
  /\ locked
  /\ pc["poll"] = "read"
  /\ consumed["poll"] # <<>>

\* ---------------------------------------------------------------- read loop
\* thread t takes a byte from the channel in this step
ReadsByte(t) == pc[t] = "read" /\ consumed'[t] # consumed[t]

\* thread t stays in its read loop with the lock, and a caller waiting at
\* acquire() stays there
StaysInLoop(t) ==
  /\ pc'[t] = "read"
  /\ locked'
  /\ \A u \in Threads \ {t} : pc[u] = "acquire" => pc'[u] = "acquire"

\* the read loop is left only on a carriage return, a timed-out read or an
\* exception
LoopLeftOnlyByEndOrError ==
  \A t \in Threads :
    (pc[t] = "read" /\ pc'[t] # "read") =>
      \/ ret'[t].kind = "raise"
      \/ lastRead'[t] = "timeout"
      \/ (lastRead'[t] = "byte" /\ Last(consumed'[t]).ch = CR)

\* under fair scheduling every read loop ends
ReadLoopEnds == \A t \in Threads : (pc[t] = "read") ~> (pc[t] = "finally")

\* C14 as stated: every read of a byte other than the carriage return,
\* however many were read before, leaves the call in its loop with the lock
\* held and the other caller blocked; the loop is left only on a carriage
\* return, a timed-out read or an exception, and it is left eventually.
C14_NonTerminatorKeepsCallInLoop ==
  /\ [][\A t \in Threads :
          (ReadsByte(t) /\ Last(consumed'[t]).ch # CR) => StaysInLoop(t)]_vars
  /\ [][LoopLeftOnlyByEndOrError]_vars
  /\ ReadLoopEnds

\* C14 as amended: the same for every byte other than the carriage return
\* that decodes as UTF-8.
C14_DecodableNonTerminatorKeepsCallInLoop ==
  /\ [][\A t \in Threads :
          (ReadsByte(t) /\ Last(consumed'[t]).ch \notin {CR, BadByte}) =>
            StaysInLoop(t)]_vars
  /\ [][LoopLeftOnlyByEndOrError]_vars
  /\ ReadLoopEnds

\* the poll has read five bytes, none the terminator, and is still in its
\* loop while the callback waits for the lock
C14_Witness ==
  /\ pc["poll"] = "read"
  /\ Len(consumed["poll"]) >= 5
  /\ locked
  /\ pc["cb"] = "acquire"

\* ------------------------------------------------------------ frame effect
\* the callback thread takes a step
CallbackStep ==
  pc'["cb"] # pc["cb"] \/ consumed'["cb"] # consumed["cb"]

\* C15: no step of the callback thread, on either branch and whatever the
\* response, changes the stored encoder state or publishes; whatever changes
\* them is a step of the main thread.
C15_OnlyPollTouchesEncoderState ==
  [][/\ CallbackStep => UNCHANGED <<encVars, pub>>
     /\ (encVars' # encVars \/ pub' # pub) => pc'["poll"] # pc["poll"]]_vars

\* after a poll stored counts, a rate command has got its response
C15_Witness ==
  /\ pc["cb"] = "finally"
  /\ ~motor_command.is_pwm
  /\ ret["cb"].kind = "value"
  /\ ret["cb"].val # <<>>
  /\ last_m1_enc # 0

\* ---------------------------------------------------------- rate frames
Abs(n) == IF n >= 0 THEN n ELSE -n

\* n has the sign of h, or is zero
SameSign(n, h) == n = 0 \/ (n > 0 /\ h > 0) \/ (n < 0 /\ h < 0)

\* n is (h/2) * cpr / (2*pi) with its fraction dropped
IsTruncOfProduct(n, h, cpr) ==
  /\ SameSign(n, h)
  /\ 4 * Abs(n) * PiNum <= Abs(h) * cpr * PiDen
  /\ Abs(h) * cpr * PiDen < 4 * (Abs(n) + 1) * PiNum

\* n is within 1/2 of (h/2) * cpr / (2*pi)
IsNearestOfProduct(n, h, cpr) ==
  /\ SameSign(n, h)
  /\ 2 * (2 * Abs(n) - 1) * PiNum <= Abs(h) * cpr * PiDen
  /\ Abs(h) * cpr * PiDen <= 2 * (2 * Abs(n) + 1) * PiNum

\* the callback has written the frame of a rate command
RateFrameWritten ==
  /\ pc["cb"] \in {"read", "finally"}
  /\ written["cb"] = 1
  /\ ~motor_command.is_pwm

\* the tokens of the frame the callback wrote
RateTokens == Split(FrameBody(cmd_string["cb"]))

C18_WaiterHasProgressingHolder ==
  \A t \in Threads :
    (pc[t] = "acquire" /\ locked) =>
      \E u \in Threads \ {t} :
        /\ pc[u] \in InExchange
        /\ ENABLED Progress(u)

\* the main thread waits while the callback's call, ended by an exception,
\* is about to release the lock
C18_Witness ==
  /\ pc["poll"] = "acquire"
  /\ locked
  /\ pc["cb"] = "finally"
  /\ ret["cb"].kind = "raise"

\* ------------------------------------------------------- I/O after close
\* thread t calls conn.write or conn.read
ChannelCall(t) ==
  /\ pc[t] \in {"write", "read"}
  /\ pc'[t] # pc[t] \/ consumed'[t] # consumed[t]

\* C19: once close_conn has closed the channel, no thread calls conn.write or
\* conn.read on it any more.
C19_NoChannelCallAfterClose ==
  [][~conn_open => \A t \in Threads : ~ChannelCall(t)]_vars

\* ---------------------------------------------------------- empty results
\* the call of thread t has completed its exchange with a result
Completed(t) == pc[t] = "finally" /\ ret[t].kind = "value"

\* the carriage return was the first byte the call of thread t received
TerminatorFirst(t) ==
  /\ lastRead[t] = "byte"
  /\ Len(consumed[t]) = 1
  /\ consumed[t][1].ch = CR

\* a completed call returned '' exactly when its read timed out or the
\* carriage return came first
EmptyExactlyOnTimeoutOrBareTerminator ==
  \A t \in Threads :
    Completed(t) =>
      (ret[t].val = <<>> <=> (lastRead[t] = "timeout" \/ TerminatorFirst(t)))

\* the poll, given '', takes no sample, publishes nothing and goes on
EmptyResultIsNoReading ==
  (PollTakesResponse /\ ret["poll"] = Returned(<<>>)) =>
    /\ UNCHANGED encVars
    /\ pub' = <<>>
    /\ pollExc' = NoExc
    /\ pc'["poll"] = "loop"

\* C20: send_command returns the empty string exactly when a read timed out
\* or the carriage return was the first byte received, every other completed
\* exchange returning a non-empty result; and the poll handles the empty
\* result of either origin alike: no sample, no publication.
C20_EmptyOnlyOnTimeoutOrBareTerminator ==
  /\ []EmptyExactlyOnTimeoutOrBareTerminator
  /\ [][EmptyResultIsNoReading]_vars

\* the controller answered the encoder read with an empty line
C20_Witness ==
  /\ Completed("poll")
  /\ TerminatorFirst("poll")
  /\ ret["poll"].val = <<>>

====
